---- MODULE Spec2Model ----
(***************************************************************************)
(* Model of bear/monitor_resources.py: the ResourceMonitor (the Sampler)   *)
(* with its background sampling threads, and run_with_monitoring (the      *)
(* Supervised Runner).                                                     *)
(*                                                                         *)
(* Two specifications share the Sampler and its threads:                   *)
(*   Spec     a caller that issues any sequence of start_monitoring /      *)
(*            stop_monitoring calls on one ResourceMonitor;                *)
(*   SpecRun  one execution of run_with_monitoring(command, interval).     *)
(***************************************************************************)
EXTENDS Integers, Sequences, FiniteSets, TLC

VARIABLES
    GPU_AVAILABLE,   \* module global set by the import of GPUtil (lines 19-23)
    monitoring,      \* ResourceMonitor.monitoring
    data,            \* contents of the one list object bound to ResourceMonitor.data
    monitor_thread,  \* ResourceMonitor.monitor_thread: 0 = attribute not set, else a thread id
    thr,             \* the threads created by start_monitoring: position and locals of each
    clock,           \* time.time()
    pc,              \* position of the calling thread
    calls,           \* Spec: the calls the caller has completed, each with what it observed
    child,           \* SpecRun: the child process, its state and how it ended
    run,             \* SpecRun: locals of run_with_monitoring
    ret,             \* SpecRun: the dict returned by run_with_monitoring
    bench            \* SpecBench: main() of benchmark_wsinfer.py and its locals

vars == <<GPU_AVAILABLE, monitoring, data, monitor_thread, thr, clock, pc,
          calls, child, run, ret, bench>>

samplerVars == <<monitoring, monitor_thread, thr>>
runVars == <<child, run, ret>>

----------------------------------------------------------------------------
(* Bounds of the model *)

MaxCalls == 4       \* calls the caller of Spec makes
MaxTicks == 1       \* iterations of _monitor_loop each thread begins
MaxClock == 1       \* the clock advances on its own up to here

\* threads one ResourceMonitor is asked to create: a start and a stop for each
MaxThreads == MaxCalls \div 2
MaxLen == 3         \* snapshots of a Timeline handed to the analysis
MaxRunTime == 3     \* the timed run is followed up to this time
MaxModels == 2      \* values given to --models
MaxConfigs == 8     \* configurations of one sweep

(* Program constants *)

Interval == 1               \* ResourceMonitor.interval
GiB == 1073741824           \* 1024**3
LaunchFailureCode == -1     \* returncode of the stand-in result

Threads == 1..MaxThreads

----------------------------------------------------------------------------
(* What the collaborators can answer *)

\* psutil.cpu_percent(interval=None)
CpuReadings == {10, 90}

\* psutil.virtual_memory(): percent, used and available bytes
MemReadings == {[percent |-> 50, used |-> GiB, available |-> GiB]}

\* one GPUtil GPU object; memoryUtil and load are fractions, held in tenths
GpuDevice == [id |-> 0, name |-> "gpu0", memoryUsed |-> 100, memoryTotal |-> 200,
              memoryUtil |-> 5, load |-> 3, temperature |-> 60]

\* GPUtil.getGPUs(): the devices visible at one tick
GpuAnswers == {<<>>, <<GpuDevice>>}

\* str(e) of an exception raised by GPUtil.getGPUs()
GpuErrors == {"nvidia-smi failed"}

\* a fraction held in tenths, times 100
Times100(tenths) == tenths * 10

\* bytes / (1024**3), for the whole numbers of GiB the readings hold
ToGb(bytes) == bytes \div GiB

----------------------------------------------------------------------------
(* Python values *)

Unset == [unset |-> TRUE]          \* a name not bound yet
EmptyDict == [k \in {} |-> 0]      \* {}
NoBench == [pc |-> "none"]         \* benchmark_wsinfer.py is not running

RECURSIVE SumSeq(_)
SumSeq(s) == IF s = <<>> THEN 0 ELSE Head(s) + SumSeq(Tail(s))

\* the last element taken for the maximum
MaxSeq_Last(s) == s[Len(s)]

RECURSIVE MaxSeq(_)
MaxSeq(s) ==
    IF Len(s) = 1 THEN s[1]
    ELSE LET m == MaxSeq(Tail(s)) IN IF Head(s) >= m THEN Head(s) ELSE m

\* sum(xs) / len(xs): the quotient, kept as numerator and denominator
Mean(s) == [num |-> SumSeq(s), den |-> Len(s)]

Max2(a, b) == IF a >= b THEN a ELSE b

----------------------------------------------------------------------------
(* ResourceMonitor *)

NoThread == [pc |-> "none", n |-> 0, dp |-> Unset, wake |-> 0]

\* a thread has terminated: its loop ended, or an exception left its target
Terminated(t) == thr[t].pc \in {"done", "dead"}
Alive(t) == thr[t].pc \notin {"none", "done", "dead"}
Created == {t \in Threads : thr[t].pc # "none"}

\* ResourceMonitor.__init__: monitoring = False, data = [], no monitor_thread
InitSampler ==
    /\ monitoring = FALSE
    /\ data = <<>>
    /\ monitor_thread = 0
    /\ thr = [t \in Threads |-> NoThread]

\* start_monitoring, line 34: self.monitoring = True
start_monitoring_flag ==
    /\ monitoring' = TRUE
    /\ UNCHANGED <<monitor_thread, thr>>

\* start_monitoring, lines 35-36: a new Thread on _monitor_loop, bound to
\* self.monitor_thread and started; nothing looks at an earlier thread
start_monitoring_thread ==
    /\ LET t == Cardinality(Created) + 1 IN
         /\ monitor_thread' = t
         /\ thr' = [thr EXCEPT ![t] = [pc |-> "check", n |-> 0, dp |-> Unset, wake |-> 0]]
    /\ UNCHANGED monitoring

\* the flag flipped in place of cleared
stop_monitoring_flag_Toggle ==
    /\ monitoring' = ~monitoring
    /\ UNCHANGED <<monitor_thread, thr>>

\* stop_monitoring, line 40: self.monitoring = False
stop_monitoring_flag ==
    /\ monitoring' = FALSE
    /\ UNCHANGED <<monitor_thread, thr>>

\* stop_monitoring, lines 41-42: join() of self.monitor_thread when the
\* attribute exists; enabled once that one thread has terminated
stop_monitoring_joined ==
    monitor_thread # 0 => Terminated(monitor_thread)

\* stop_monitoring, line 43: the value returned is the list object self.data
\* itself; a reference to it reads whatever the list holds at that time
DataRef == "self.data"
Deref(ref) == data

----------------------------------------------------------------------------
(* _monitor_loop, one step of thread t at a time *)

\* line 47: while self.monitoring
\* the loop condition taken as true whatever self.monitoring says
LoopCheck_NoSignal(t) ==
    /\ thr[t].pc = "check"
    /\ thr[t].n < MaxTicks
    /\ thr' = [thr EXCEPT ![t].pc = "tick", ![t].n = @ + 1]
    /\ UNCHANGED <<bench, GPU_AVAILABLE, monitoring, data, monitor_thread, clock, pc,
                   calls, runVars>>

LoopCheckUpTo(t, ticks) ==
    /\ thr[t].pc = "check"
    /\ IF monitoring
         THEN /\ thr[t].n < ticks
              /\ thr' = [thr EXCEPT ![t].pc = "tick", ![t].n = @ + 1]
         ELSE thr' = [thr EXCEPT ![t].pc = "done"]
    /\ UNCHANGED <<bench, GPU_AVAILABLE, monitoring, data, monitor_thread, clock, pc,
                   calls, runVars>>

\* line 47 with each thread beginning at most MaxTicks iterations
LoopCheck(t) == LoopCheckUpTo(t, MaxTicks)

\* lines 54-60: the data_point built from the timestamp and the readings
DataPoint(timestamp, cpu_percent, memory) ==
    [timestamp |-> timestamp,
     cpu_percent |-> cpu_percent,
     memory_percent |-> memory.percent,
     memory_used_gb |-> ToGb(memory.used),
     memory_available_gb |-> ToGb(memory.available)]

\* the GPU block entered whatever GPU_AVAILABLE says
AfterPoint_Always == "gpu"

\* after the data_point is built: line 63
AfterPoint == IF GPU_AVAILABLE THEN "gpu" ELSE "append"

\* lines 48-60: timestamp = time.time(), then the psutil readings
TickRead(t) ==
    /\ thr[t].pc = "tick"
    /\ \E c \in CpuReadings, m \in MemReadings :
         thr' = [thr EXCEPT ![t].pc = AfterPoint,
                            ![t].dp = DataPoint(clock, c, m)]
    /\ UNCHANGED <<bench, GPU_AVAILABLE, monitoring, data, monitor_thread, clock, pc,
                   calls, runVars>>

\* lines 51-52 raise: no handler encloses them, the exception leaves
\* _monitor_loop and the thread ends without appending
TickRaise(t) ==
    /\ thr[t].pc = "tick"
    /\ thr' = [thr EXCEPT ![t].pc = "dead"]
    /\ UNCHANGED <<bench, GPU_AVAILABLE, monitoring, data, monitor_thread, clock, pc,
                   calls, runVars>>

\* lines 67-76: one dict per GPU object
RECURSIVE GpuData(_)
GpuData(gpus) ==
    IF gpus = <<>> THEN <<>>
    ELSE <<[id |-> Head(gpus).id,
            name |-> Head(gpus).name,
            memory_used_mb |-> Head(gpus).memoryUsed,
            memory_total_mb |-> Head(gpus).memoryTotal,
            memory_percent |-> Times100(Head(gpus).memoryUtil),
            gpu_percent |-> Times100(Head(gpus).load),
            temperature |-> Head(gpus).temperature]>> \o GpuData(Tail(gpus))

\* lines 64-77: GPUtil.getGPUs() answers, data_point["gpus"] is set
GpuRead(t) ==
    /\ thr[t].pc = "gpu"
    /\ \E gpus \in GpuAnswers :
         thr' = [thr EXCEPT ![t].pc = "append",
                            ![t].dp = [gpus |-> GpuData(gpus)] @@ thr[t].dp]
    /\ UNCHANGED <<bench, GPU_AVAILABLE, monitoring, data, monitor_thread, clock, pc,
                   calls, runVars>>

\* the exception of GPUtil.getGPUs() left uncaught: the thread ends
GpuRaise_Unhandled(t) ==
    /\ thr[t].pc = "gpu"
    /\ thr' = [thr EXCEPT ![t].pc = "dead"]
    /\ UNCHANGED <<bench, GPU_AVAILABLE, monitoring, data, monitor_thread, clock, pc,
                   calls, runVars>>

\* lines 78-79: GPUtil.getGPUs() raises, data_point["gpu_error"] = str(e)
GpuRaise(t) ==
    /\ thr[t].pc = "gpu"
    /\ \E e \in GpuErrors :
         thr' = [thr EXCEPT ![t].pc = "append",
                            ![t].dp = [gpu_error |-> e] @@ thr[t].dp]
    /\ UNCHANGED <<bench, GPU_AVAILABLE, monitoring, data, monitor_thread, clock, pc,
                   calls, runVars>>

\* line 81: self.data.append(data_point); line 82: time.sleep begins
AppendPoint(t) ==
    /\ thr[t].pc = "append"
    /\ data' = Append(data, thr[t].dp)
    /\ thr' = [thr EXCEPT ![t].pc = "sleep", ![t].dp = Unset,
                          ![t].wake = clock + Interval]
    /\ UNCHANGED <<bench, GPU_AVAILABLE, monitoring, monitor_thread, clock, pc,
                   calls, runVars>>

\* line 82: time.sleep(self.interval) returns; at least the interval has passed
SleepDone(t) ==
    /\ thr[t].pc = "sleep"
    /\ clock' = Max2(clock, thr[t].wake)
    /\ thr' = [thr EXCEPT ![t].pc = "check", ![t].wake = 0]
    /\ UNCHANGED <<bench, GPU_AVAILABLE, monitoring, data, monitor_thread, pc,
                   calls, runVars>>

\* time passes
Tick ==
    /\ clock < MaxClock
    /\ clock' = clock + 1
    /\ UNCHANGED <<bench, GPU_AVAILABLE, monitoring, data, monitor_thread, thr, pc,
                   calls, runVars>>

----------------------------------------------------------------------------
(* Spec: a caller of one ResourceMonitor *)

NoChild == [state |-> "none"]
NoRun == [start_time |-> 0, end_time |-> 0, success |-> FALSE, result |-> Unset]

Init ==
    /\ GPU_AVAILABLE = FALSE
    /\ InitSampler
    /\ clock = 0
    /\ pc = "idle"
    /\ calls = <<>>
    /\ child = NoChild
    /\ run = NoRun
    /\ ret = Unset
    /\ bench = NoBench

\* the caller enters start_monitoring
CallStart ==
    /\ pc = "idle"
    /\ Len(calls) < MaxCalls
    /\ Cardinality(Created) < MaxThreads
    /\ start_monitoring_flag
    /\ pc' = "start"
    /\ UNCHANGED <<bench, GPU_AVAILABLE, data, clock, calls, runVars>>

\* start_monitoring returns
ReturnStart ==
    /\ pc = "start"
    /\ start_monitoring_thread
    /\ pc' = "idle"
    /\ calls' = Append(calls, [op |-> "start", at |-> clock, len |-> Len(data)])
    /\ UNCHANGED <<bench, GPU_AVAILABLE, data, clock, runVars>>

\* the caller enters stop_monitoring; it notes the time, the length of the
\* list and whether the Sampler is idle (flag false, no thread alive)
CallStop ==
    /\ pc = "idle"
    /\ Len(calls) < MaxCalls
    /\ stop_monitoring_flag
    /\ pc' = "join"
    /\ calls' = Append(calls, [op |-> "stopping", at |-> clock, len |-> Len(data),
                                idle |-> ~monitoring /\ \A t \in Threads : ~Alive(t)])
    /\ UNCHANGED <<bench, GPU_AVAILABLE, data, clock, runVars>>

\* stop_monitoring returns self.data; the caller keeps the reference and
\* notes what the list holds at that moment
ReturnStop ==
    /\ pc = "join"
    /\ stop_monitoring_joined
    /\ pc' = "idle"
    /\ calls' = [calls EXCEPT ![Len(calls)] =
                    [op |-> "stop", at |-> calls[Len(calls)].at,
                     idle |-> calls[Len(calls)].idle,
                     before |-> calls[Len(calls)].len,
                     len |-> Len(data), timeline |-> DataRef, seen |-> data]]
    /\ UNCHANGED <<bench, GPU_AVAILABLE, data, clock, samplerVars, runVars>>

\* Spec follows the Sampler on a host where the import of GPUtil failed, so
\* line 63 skips the GPU block in every tick; SpecRun covers both hosts
Next ==
    \/ CallStart
    \/ ReturnStart
    \/ CallStop
    \/ ReturnStop
    \/ \E t \in Threads : LoopCheck(t)
    \/ \E t \in Threads : TickRead(t)
    \/ \E t \in Threads : TickRaise(t)
    \/ \E t \in Threads : AppendPoint(t)
    \/ \E t \in Threads : SleepDone(t)
    \/ Tick

Spec == Init /\ [][Next]_vars

----------------------------------------------------------------------------
(* run_with_monitoring *)

\* exceptions: the class and str(e)
LaunchErrors ==
    {[cls |-> "FileNotFoundError", msg |-> "[Errno 2] No such file or directory"],
     [cls |-> "PermissionError", msg |-> "[Errno 13] Permission denied"]}

\* raised in the caller while subprocess.run waits for the child
WaitErrors ==
    {[cls |-> "KeyboardInterrupt", msg |-> ""],
     [cls |-> "UnicodeDecodeError", msg |-> "invalid start byte"]}

\* the classes `except Exception` catches, among those above
ExceptionClasses == {"FileNotFoundError", "PermissionError", "UnicodeDecodeError"}

Str(e) == e.msg

\* the CompletedProcess of a child that ran
ChildResults ==
    {[returncode |-> 0, stdout |-> "", stderr |-> ""],
     [returncode |-> 1, stdout |-> "out", stderr |-> "err"]}

\* the stand-in carrying an ordinary failure code in place of the sentinel
StandInResult_Code1(e) ==
    [returncode |-> 1, stdout |-> "", stderr |-> Str(e)]

\* lines 106-110: the stand-in for the result when subprocess.run raised
StandInResult(e) ==
    [returncode |-> LaunchFailureCode, stdout |-> "", stderr |-> Str(e)]

\* [d[key] for d in s]
RECURSIVE Column(_, _)
Column(s, key) ==
    IF s = <<>> THEN <<>> ELSE <<Head(s)[key]>> \o Column(Tail(s), key)

\* only the first data_point that has "gpus" is looked at
RECURSIVE PooledGpus_FirstOnly(_)
PooledGpus_FirstOnly(s) ==
    IF s = <<>> THEN <<>>
    ELSE IF "gpus" \in DOMAIN Head(s) THEN Head(s).gpus
         ELSE PooledGpus_FirstOnly(Tail(s))

\* lines 133-137: the GPU dicts of every data_point that has "gpus", in order
RECURSIVE PooledGpus(_)
PooledGpus(s) ==
    IF s = <<>> THEN <<>>
    ELSE (IF "gpus" \in DOMAIN Head(s) THEN Head(s).gpus ELSE <<>>)
         \o PooledGpus(Tail(s))

\* lines 119-127
CpuMemAnalysis(resource_data) ==
    LET cpu_usage == Column(resource_data, "cpu_percent")
        memory_usage == Column(resource_data, "memory_used_gb")
    IN [max_cpu_percent |-> MaxSeq(cpu_usage),
        avg_cpu_percent |-> Mean(cpu_usage),
        max_memory_gb |-> MaxSeq(memory_usage),
        avg_memory_gb |-> Mean(memory_usage)]

\* lines 129-145
GpuAnalysis(resource_data) ==
    LET gpu_memory_usage == Column(PooledGpus(resource_data), "memory_used_mb")
        gpu_utilization == Column(PooledGpus(resource_data), "gpu_percent")
    IN IF /\ GPU_AVAILABLE
          /\ \E i \in 1..Len(resource_data) : "gpus" \in DOMAIN resource_data[i]
          /\ gpu_memory_usage # <<>>
         THEN [max_gpu_memory_mb |-> MaxSeq(gpu_memory_usage),
               avg_gpu_memory_mb |-> Mean(gpu_memory_usage),
               max_gpu_utilization |-> MaxSeq(gpu_utilization),
               avg_gpu_utilization |-> Mean(gpu_utilization)]
         ELSE EmptyDict

\* the analysis guarded by len(resource_data) > 1 in place of truthiness
Analyze_NeedsTwo(resource_data) ==
    IF Len(resource_data) > 1
      THEN GpuAnalysis(resource_data) @@ CpuMemAnalysis(resource_data)
      ELSE EmptyDict

\* lines 118-147: the analysis of the list stop_monitoring returned
Analyze(resource_data) ==
    IF resource_data # <<>>
      THEN GpuAnalysis(resource_data) @@ CpuMemAnalysis(resource_data)
      ELSE EmptyDict

InitRun ==
    /\ GPU_AVAILABLE \in BOOLEAN
    /\ InitSampler
    /\ clock = 0
    /\ pc = "init"
    /\ calls = <<>>
    /\ child = NoChild
    /\ run = NoRun
    /\ ret = Unset
    /\ bench = NoBench

\* lines 91-92: ResourceMonitor(interval), start_monitoring up to line 34
RunStart ==
    /\ pc = "init"
    /\ start_monitoring_flag
    /\ pc' = "start"
    /\ UNCHANGED <<bench, GPU_AVAILABLE, data, clock, calls, runVars>>

\* line 92: start_monitoring returns with the thread started
RunStarted ==
    /\ pc = "start"
    /\ start_monitoring_thread
    /\ pc' = "launch"
    /\ UNCHANGED <<bench, GPU_AVAILABLE, data, clock, calls, runVars>>

\* the child started without waiting for start_monitoring
RunLaunch_BeforeStart ==
    /\ pc \in {"init", "launch"}
    /\ child' = [state |-> "running"]
    /\ run' = [run EXCEPT !.start_time = clock]
    /\ pc' = "wait"
    /\ UNCHANGED <<bench, GPU_AVAILABLE, data, clock, calls, samplerVars, ret>>

\* lines 94-98: start_time, then subprocess.run starts the child
RunLaunch ==
    /\ pc = "launch"
    /\ child' = [state |-> "running"]
    /\ run' = [run EXCEPT !.start_time = clock]
    /\ pc' = "wait"
    /\ UNCHANGED <<bench, GPU_AVAILABLE, data, clock, calls, samplerVars, ret>>

\* lines 103-110: the handler of the try block, entered with exception e
Handler(e) ==
    IF e.cls \in ExceptionClasses
      THEN /\ run' = [run EXCEPT !.start_time = IF pc = "launch" THEN clock ELSE @,
                                 !.end_time = clock,
                                 !.success = FALSE,
                                 !.result = StandInResult(e)]
           /\ pc' = "stop"
      ELSE /\ run' = [run EXCEPT !.start_time = IF pc = "launch" THEN clock ELSE @]
           /\ pc' = "raised"

\* lines 94-98, 103-110: subprocess.run cannot start the child and raises
RunLaunchFails ==
    /\ pc = "launch"
    /\ \E e \in LaunchErrors :
         /\ Handler(e)
         /\ child' = [state |-> "failed", error |-> e]
    /\ UNCHANGED <<bench, GPU_AVAILABLE, data, clock, calls, samplerVars, ret>>

\* success set without looking at the return code
RunChildExits_AlwaysSuccess ==
    /\ pc = "wait"
    /\ \E r \in ChildResults :
         /\ run' = [run EXCEPT !.end_time = clock,
                               !.success = TRUE,
                               !.result = r]
         /\ child' = [state |-> "exited", proc |-> r]
    /\ pc' = "stop"
    /\ UNCHANGED <<bench, GPU_AVAILABLE, data, clock, calls, samplerVars, ret>>

\* lines 98-101: the child terminates and subprocess.run returns
RunChildExits ==
    /\ pc = "wait"
    /\ \E r \in ChildResults :
         /\ run' = [run EXCEPT !.end_time = clock,
                               !.success = (r.returncode = 0),
                               !.result = r]
         /\ child' = [state |-> "exited", proc |-> r]
    /\ pc' = "stop"
    /\ UNCHANGED <<bench, GPU_AVAILABLE, data, clock, calls, samplerVars, ret>>

\* line 98: an exception reaches the caller during the wait; subprocess.run
\* kills the child and raises it again
RunWaitRaises ==
    /\ pc = "wait"
    /\ \E e \in WaitErrors :
         /\ Handler(e)
         /\ child' = [state |-> "killed", error |-> e]
    /\ UNCHANGED <<bench, GPU_AVAILABLE, data, clock, calls, samplerVars, ret>>

\* line 113: stop_monitoring up to line 40
RunStop ==
    /\ pc = "stop"
    /\ stop_monitoring_flag
    /\ pc' = "join"
    /\ UNCHANGED <<bench, GPU_AVAILABLE, data, clock, calls, runVars>>

\* lines 149-157: the dict returned
RunResult(resource_data) ==
    [success |-> run.success,
     execution_time |-> run.end_time - run.start_time,
     return_code |-> run.result.returncode,
     stdout |-> run.result.stdout,
     stderr |-> run.result.stderr,
     resource_analysis |-> Analyze(Deref(resource_data)),
     resource_timeline |-> resource_data]

\* lines 113-157: the join ends, stop_monitoring returns self.data, the
\* analysis is computed and the dict is returned
RunReturn ==
    /\ pc = "join"
    /\ stop_monitoring_joined
    /\ ret' = RunResult(DataRef)
    /\ pc' = "returned"
    /\ UNCHANGED <<bench, GPU_AVAILABLE, data, clock, calls, samplerVars, child, run>>

NextRun ==
    \/ RunStart
    \/ RunStarted
    \/ RunLaunch
    \/ RunLaunchFails
    \/ RunChildExits
    \/ RunWaitRaises
    \/ RunStop
    \/ RunReturn
    \/ \E t \in Threads : LoopCheck(t)
    \/ \E t \in Threads : TickRead(t)
    \/ \E t \in Threads : TickRaise(t)
    \/ \E t \in Threads : GpuRead(t)
    \/ \E t \in Threads : GpuRaise(t)
    \/ \E t \in Threads : AppendPoint(t)
    \/ \E t \in Threads : SleepDone(t)
    \/ Tick

SpecRun == InitRun /\ [][NextRun]_vars

\* a step of thread t
ThreadStep(t) ==
    \/ LoopCheck(t)
    \/ TickRead(t)
    \/ TickRaise(t)
    \/ GpuRead(t)
    \/ GpuRaise(t)
    \/ AppendPoint(t)
    \/ SleepDone(t)

\* SpecRun with a scheduler that lets every started thread run again and
\* again (each statement of _monitor_loop and its sleep end) and lets join()
\* return once the joined thread has ended
SpecRunFair ==
    /\ SpecRun
    /\ \A t \in Threads : WF_vars(ThreadStep(t))
    /\ WF_vars(RunReturn)

----------------------------------------------------------------------------
(* run_with_monitoring with time: the statements of the caller and of the   *)
(* thread take no time, only the child and time.sleep do                    *)

\* line 47: the sleeps leave room for MaxRunTime + 1 iterations at most
LoopCheckTimed(t) == LoopCheckUpTo(t, MaxRunTime + 1)

\* line 82: time.sleep(self.interval) returns once the interval has passed
SleepDoneTimed(t) ==
    /\ thr[t].wake <= clock
    /\ SleepDone(t)

\* time passes while the caller waits (for the child, or in join()) or has
\* finished, and every started thread has ended or sleeps
TimePasses ==
    /\ clock < MaxRunTime
    /\ pc \in {"wait", "join", "returned", "raised"}
    /\ \A t \in Created :
          Terminated(t) \/ (thr[t].pc = "sleep" /\ thr[t].wake > clock)
    /\ clock' = clock + 1
    /\ UNCHANGED <<bench, GPU_AVAILABLE, monitoring, data, monitor_thread, thr, pc,
                   calls, runVars>>

NextTimed ==
    \/ RunStart
    \/ RunStarted
    \/ RunLaunch
    \/ RunLaunchFails
    \/ RunChildExits
    \/ RunWaitRaises
    \/ RunStop
    \/ RunReturn
    \/ \E t \in Threads : LoopCheckTimed(t)
    \/ \E t \in Threads : TickRead(t)
    \/ \E t \in Threads : TickRaise(t)
    \/ \E t \in Threads : GpuRead(t)
    \/ \E t \in Threads : GpuRaise(t)
    \/ \E t \in Threads : AppendPoint(t)
    \/ \E t \in Threads : SleepDoneTimed(t)
    \/ TimePasses

SpecTimed == InitRun /\ [][NextTimed]_vars

----------------------------------------------------------------------------
(* The analysis of run_with_monitoring applied to the Timelines one thread  *)
(* can have recorded by the time stop_monitoring returns                    *)

\* psutil.virtual_memory() at the ticks of these Timelines
ReduceMemReadings ==
    MemReadings \cup {[percent |-> 0, used |-> 0, available |-> GiB]}

\* a second GPU object, busier than GpuDevice
GpuDevice2 == [id |-> 1, name |-> "gpu1", memoryUsed |-> 300, memoryTotal |-> 400,
               memoryUtil |-> 8, load |-> 7, temperature |-> 70]

\* GPUtil.getGPUs() at the ticks of these Timelines
ReduceGpuAnswers == GpuAnswers \cup {<<GpuDevice2>>, <<GpuDevice, GpuDevice2>>}

\* lines 48-79: the data_points one tick can build
TickPoints ==
    LET base == {DataPoint(0, c, m) : c \in CpuReadings, m \in ReduceMemReadings}
    IN IF GPU_AVAILABLE
         THEN {[gpus |-> GpuData(g)] @@ d : g \in ReduceGpuAnswers, d \in base}
              \cup {[gpu_error |-> e] @@ d : e \in GpuErrors, d \in base}
         ELSE base

\* line 81: the lists a thread that ran n ticks appended, timestamps ascending
Timelines(n) ==
    {[i \in 1..n |-> [f[i] EXCEPT !.timestamp = i - 1]] : f \in [1..n -> TickPoints]}

\* run_with_monitoring at line 113, inside stop_monitoring at the join: the
\* child has exited, the flag is cleared and the thread has left its loop
InitReduce ==
    /\ GPU_AVAILABLE \in BOOLEAN
    /\ \E n \in 0..MaxLen : data \in Timelines(n)
    /\ monitoring = FALSE
    /\ monitor_thread = 1
    /\ thr = [t \in Threads |->
                IF t = 1 THEN [pc |-> "done", n |-> Len(data), dp |-> Unset, wake |-> 0]
                         ELSE NoThread]
    /\ clock = Len(data) * Interval
    /\ pc = "join"
    /\ calls = <<>>
    /\ \E r \in ChildResults :
         /\ child = [state |-> "exited", proc |-> r]
         /\ run = [start_time |-> 0, end_time |-> clock,
                   success |-> (r.returncode = 0), result |-> r]
    /\ ret = Unset
    /\ bench = NoBench

NextReduce == RunReturn

SpecReduce == InitReduce /\ [][NextReduce]_vars

----------------------------------------------------------------------------
(* SpecBench: main() of benchmark_wsinfer.py, one sweep                     *)

\* args.models: the default name first
Models(n) ==
    [i \in 1..n |-> IF i = 1 THEN "breast-tumor-resnet34.tcga-brca"
                             ELSE "model" \o ToString(i)]

\* the parsed command lines followed: --models, --batch-sizes, --num-workers
BenchArgs ==
    {[models |-> Models(n), batch_sizes |-> b, num_workers |-> w] :
        n \in 1..MaxModels, b \in {<<16>>, <<32, 16>>}, w \in {<<0>>, <<0, 2>>}}

\* how a wsinfer child that was launched ends, and after how many seconds
BenchRuns ==
    {[returncode |-> 0, stdout |-> "done", stderr |-> "", seconds |-> 2],
     [returncode |-> 1, stdout |-> "", stderr |-> "Traceback", seconds |-> 1]}

\* str() of a bool
StrBool(b) == IF b THEN "True" ELSE "False"

\* lines 113-120: one configuration
BenchConfig(model, batch_size, num_workers, speedup) ==
    [name |-> model \o "_bs" \o ToString(batch_size) \o "_w"
                    \o ToString(num_workers) \o "_speedup" \o StrBool(speedup),
     model |-> model,
     batch_size |-> batch_size,
     num_workers |-> num_workers,
     speedup |-> speedup]

\* line 112: for speedup in [False, True]
RECURSIVE ForSpeedup(_, _, _, _)
ForSpeedup(model, batch_size, num_workers, speedups) ==
    IF speedups = <<>> THEN <<>>
    ELSE <<BenchConfig(model, batch_size, num_workers, Head(speedups))>>
         \o ForSpeedup(model, batch_size, num_workers, Tail(speedups))

\* line 111: for num_workers in args.num_workers
RECURSIVE ForNumWorkers(_, _, _)
ForNumWorkers(model, batch_size, workers) ==
    IF workers = <<>> THEN <<>>
    ELSE ForSpeedup(model, batch_size, Head(workers), <<FALSE, TRUE>>)
         \o ForNumWorkers(model, batch_size, Tail(workers))

\* line 110: for batch_size in args.batch_sizes
RECURSIVE ForBatchSize(_, _, _)
ForBatchSize(model, sizes, workers) ==
    IF sizes = <<>> THEN <<>>
    ELSE ForNumWorkers(model, Head(sizes), workers)
         \o ForBatchSize(model, Tail(sizes), workers)

\* line 109: for model in args.models
RECURSIVE ForModel(_, _, _)
ForModel(models, sizes, workers) ==
    IF models = <<>> THEN <<>>
    ELSE ForBatchSize(Head(models), sizes, workers)
         \o ForModel(Tail(models), sizes, workers)

\* lines 108-121
GenerateConfigs(args) == ForModel(args.models, args.batch_sizes, args.num_workers)

\* lines 42-54: the command line of one run
BenchCmd(config) ==
    <<"wsinfer", "run", "--wsi-dir", "slides",
      "--results-dir", "benchmark_temp_results/run_" \o config.name,
      "--model", config.model,
      "--batch-size", ToString(config.batch_size),
      "--num-workers", ToString(config.num_workers)>>
    \o (IF config.speedup THEN <<"--speedup">> ELSE <<"--no-speedup">>)

\* the record of a failed run written without its return code
BenchRecord_NoCode(config, execution_time, r) ==
    [config |-> config,
     execution_time_seconds |-> execution_time,
     success |-> (r.returncode = 0),
     stdout |-> r.stdout,
     stderr |-> r.stderr]

\* lines 61-85: check=True makes a nonzero exit a CalledProcessError, whose
\* handler returns the record of a failed run
BenchRecord(config, execution_time, r) ==
    IF r.returncode = 0
      THEN [config |-> config,
            execution_time_seconds |-> execution_time,
            success |-> TRUE,
            stdout |-> r.stdout,
            stderr |-> r.stderr]
      ELSE [config |-> config,
            execution_time_seconds |-> execution_time,
            success |-> FALSE,
            stdout |-> r.stdout,
            stderr |-> r.stderr,
            return_code |-> r.returncode]

\* main() after parse_args; the ResourceMonitor is not used by this script
InitBench ==
    /\ GPU_AVAILABLE = FALSE
    /\ InitSampler
    /\ clock = 0
    /\ pc = "idle"
    /\ calls = <<>>
    /\ child = NoChild
    /\ run = NoRun
    /\ ret = Unset
    /\ \E a \in BenchArgs, e \in BOOLEAN :
         /\ Len(GenerateConfigs(a)) <= MaxConfigs
         /\ bench = [pc |-> "main", args |-> a, wsi_dir_exists |-> e,
                     configs |-> <<>>, i |-> 0, cmd |-> <<>>, start_time |-> 0,
                     results |-> <<>>, exits |-> <<>>]

benchOther == <<GPU_AVAILABLE, monitoring, data, monitor_thread, thr, pc, calls,
                child, run, ret>>

\* lines 100-102: the directory of slides is missing, sys.exit(1)
BenchNoDir ==
    /\ bench.pc = "main"
    /\ ~bench.wsi_dir_exists
    /\ bench' = [bench EXCEPT !.pc = "exit"]
    /\ UNCHANGED <<clock, benchOther>>

\* lines 104-130: the configurations are generated, results is []
BenchConfigs ==
    /\ bench.pc = "main"
    /\ bench.wsi_dir_exists
    /\ bench' = [bench EXCEPT !.pc = "loop",
                              !.configs = GenerateConfigs(bench.args),
                              !.i = 1]
    /\ UNCHANGED <<clock, benchOther>>

\* lines 132-134 and 36-61: the next configuration, its command line, the
\* start time, and wsinfer is launched
BenchLaunch ==
    /\ bench.pc = "loop"
    /\ bench.i <= Len(bench.configs)
    /\ bench' = [bench EXCEPT !.pc = "wait",
                              !.cmd = BenchCmd(bench.configs[bench.i]),
                              !.start_time = clock]
    /\ UNCHANGED <<clock, benchOther>>

\* line 61: wsinfer cannot be launched; the OSError is not a
\* CalledProcessError, it leaves run_benchmark and main
BenchLaunchFails ==
    /\ bench.pc = "loop"
    /\ bench.i <= Len(bench.configs)
    /\ bench' = [bench EXCEPT !.pc = "raised",
                              !.cmd = BenchCmd(bench.configs[bench.i]),
                              !.start_time = clock]
    /\ UNCHANGED <<clock, benchOther>>

\* lines 61-85 and 135: the child ends, run_benchmark returns its record and
\* main appends it
BenchChildExits ==
    /\ bench.pc = "wait"
    /\ \E r \in BenchRuns :
         /\ clock' = clock + r.seconds
         /\ bench' = [bench EXCEPT
                !.pc = "loop",
                !.i = @ + 1,
                !.results = Append(@, BenchRecord(bench.configs[bench.i],
                                                  clock' - bench.start_time, r)),
                !.exits = Append(@, r.returncode)]
    /\ UNCHANGED benchOther

\* lines 142-161: the loop is over, the results are saved
BenchSave ==
    /\ bench.pc = "loop"
    /\ bench.i > Len(bench.configs)
    /\ bench' = [bench EXCEPT !.pc = "done"]
    /\ UNCHANGED <<clock, benchOther>>

NextBench ==
    \/ BenchNoDir
    \/ BenchConfigs
    \/ BenchLaunch
    \/ BenchLaunchFails
    \/ BenchChildExits
    \/ BenchSave

SpecBench == InitBench /\ [][NextBench]_vars

----------------------------------------------------------------------------
(* The claims *)

AliveThreads == {t \in Threads : Alive(t)}

\* the caller of Spec is between calls and its last call was a stop
AfterStop ==
    /\ pc = "idle"
    /\ calls # <<>>
    /\ calls[Len(calls)].op = "stop"

\* C1: in run_with_monitoring the child is launched (or its launch attempted)
\* only in a step taken with the Sampler already started, flag set and thread
\* created, and the step that clears the flag in stop_monitoring is taken only
\* once the child has terminated or its launch has failed.
C1_StartBeforeLaunchStopAfterExit ==
    [][ /\ (child.state = "none" /\ child'.state # "none")
            => (monitoring /\ monitor_thread # 0)
        /\ (monitoring /\ ~monitoring')
            => child.state \in {"exited", "failed", "killed"} ]_vars

C1_Witness ==
    /\ pc = "returned"
    /\ child.state = "exited"
    /\ ~monitoring
    /\ monitor_thread # 0

\* C2: whenever run_with_monitoring has returned or has been left by an
\* exception, the monitoring flag is false and no sampling thread is alive.
C2_SamplerNeverLeftRunning ==
    pc \in {"returned", "raised"} => (~monitoring /\ AliveThreads = {})

\* C3: under any sequence of start/stop calls at most one sampling thread of
\* the ResourceMonitor is alive at any time.
C3_AtMostOneSamplingContext ==
    Cardinality(AliveThreads) <= 1

\* C4: once stop_monitoring has returned, every sampling thread has
\* terminated, and nothing is appended to the Timeline until the next call.
C4_StopJoinsEveryContext ==
    [][ AfterStop => (AliveThreads = {} /\ data' = data) ]_vars

\* C5: after start/stop/start/stop, the Timeline the first stop returned still
\* holds what it held when it was returned, and the Timeline the second stop
\* returned holds exactly the snapshots appended during the second cycle.
C5_TimelineMovedOnStop ==
    (/\ AfterStop
     /\ Len(calls) = 4
     /\ calls[1].op = "start" /\ calls[2].op = "stop" /\ calls[3].op = "start")
    => /\ Deref(calls[2].timeline) = calls[2].seen
       /\ Deref(calls[4].timeline) = SubSeq(data, calls[3].len + 1, calls[4].len)

\* C6: when the launch of the child fails, run_with_monitoring is not left by
\* the exception, and the dict it returns has success false, return_code -1,
\* empty stdout, the non-empty str(e) as stderr, the Timeline and its analysis.
C6_LaunchFailureCaptured ==
    child.state = "failed" =>
        /\ pc # "raised"
        /\ pc = "returned" =>
            /\ ret.success = FALSE
            /\ ret.return_code = -1
            /\ ret.stdout = ""
            /\ ret.stderr = Str(child.error)
            /\ ret.stderr # ""
            /\ ret.resource_timeline = DataRef
            /\ ret.resource_analysis = Analyze(data)

C6_Witness ==
    /\ pc = "returned"
    /\ child.state = "failed"
    /\ ret.success = FALSE
    /\ ret.stderr = "[Errno 2] No such file or directory"

\* C7: a tick whose CPU, memory or GPU query raises still goes on to append
\* its snapshot: a thread that leaves the query steps of a tick moves on
\* towards the append, never out of the loop.
C7_TickFailureRecovered ==
    [][ \A t \in Threads :
          (thr[t].pc \in {"tick", "gpu"} /\ thr'[t].pc # thr[t].pc)
              => thr'[t].pc \in {"gpu", "append"} ]_vars

\* C8: the timestamps of the Timeline are non-decreasing in Timeline order.
C8_TimestampsNonDecreasing ==
    \A i \in 1..Len(data) : \A j \in i..Len(data) :
        data[i].timestamp <= data[j].timestamp

\* C9: in every dict run_with_monitoring returns, resource_analysis is empty
\* exactly when the resource_timeline is empty.
C9_SummaryEmptyIffTimelineEmpty ==
    pc = "returned" =>
        ((DOMAIN ret.resource_analysis = {})
            <=> (Deref(ret.resource_timeline) = <<>>))

C9_Witness ==
    /\ pc = "returned"
    /\ Deref(ret.resource_timeline) = <<>>
    /\ DOMAIN ret.resource_analysis = {}

\* C10: when stop_monitoring has returned from a call made with no time
\* elapsed since a start_monitoring on an idle Sampler, the Timeline returned
\* holds 0 or 1 snapshots, the flag is false and no sampling thread is alive.
C10_ImmediateStop ==
    (/\ AfterStop
     /\ Len(calls) >= 2
     /\ calls[Len(calls) - 1].op = "start"
     /\ calls[Len(calls)].at = calls[Len(calls) - 1].at
     /\ (Len(calls) >= 3 => calls[Len(calls) - 2].op = "stop"))
    => /\ Len(Deref(calls[Len(calls)].timeline)) <= 1
       /\ ~monitoring
       /\ AliveThreads = {}

\* the calls of the caller of Spec that were starts
Starts == {i \in 1..Len(calls) : calls[i].op = "start"}

\* C11: when stop_monitoring has returned from a call made on an idle Sampler
\* (flag false, no thread alive), the Sampler is still idle, no thread was
\* created by it, the list holds what it held at the call and is the list
\* returned; on a never-started Sampler the list is empty and no thread
\* exists; after an earlier stop the same list is returned as by that stop.
C11_StopOnIdleIsNoOp ==
    (AfterStop /\ calls[Len(calls)].idle) =>
        LET last == calls[Len(calls)] IN
        /\ ~monitoring
        /\ AliveThreads = {}
        /\ Cardinality(Created) = Cardinality(Starts)
        /\ last.len = last.before
        /\ Deref(last.timeline) = last.seen
        /\ Starts = {} => (last.seen = <<>> /\ monitor_thread = 0)
        /\ (Len(calls) >= 2 /\ calls[Len(calls) - 1].op = "stop")
               => last.timeline = calls[Len(calls) - 1].timeline

C11_Witness ==
    /\ AfterStop
    /\ Len(calls) >= 3
    /\ calls[Len(calls)].idle
    /\ calls[Len(calls) - 1].op = "stop"
    /\ calls[Len(calls)].seen # <<>>

GpuFields == {"gpus", "gpu_error"}
GpuKeys == {"max_gpu_memory_mb", "avg_gpu_memory_mb",
            "max_gpu_utilization", "avg_gpu_utilization"}

\* C13: when GPU_AVAILABLE is false, no snapshot of the Timeline has a gpus or
\* a gpu_error field, and the analysis returned has none of the GPU keys.
C13_NoGpuFieldsWithoutGpu ==
    ~GPU_AVAILABLE =>
        /\ \A i \in 1..Len(data) : DOMAIN data[i] \cap GpuFields = {}
        /\ pc = "returned" => DOMAIN ret.resource_analysis \cap GpuKeys = {}

C13_Witness ==
    /\ ~GPU_AVAILABLE
    /\ pc = "returned"
    /\ data # <<>>
    /\ DOMAIN ret.resource_analysis # {}

\* a data_point has exactly one of the fields gpus and gpu_error
OneGpuField(d) == Cardinality(DOMAIN d \cap GpuFields) = 1

\* C17: a thread that leaves the GPU query of a tick, whether the query
\* answered or raised, moves on to the append with exactly one of gpus and
\* gpu_error in its data_point, gpu_error being the error text; the append
\* then adds that data_point and the loop goes on to its sleep; and with the
\* GPU collaborator present every snapshot of the Timeline has exactly one of
\* the two fields.
C17_GpuErrorRecorded ==
    [][ /\ \A t \in Threads :
              (thr[t].pc = "gpu" /\ thr'[t] # thr[t])
                  => /\ thr'[t].pc = "append"
                     /\ OneGpuField(thr'[t].dp)
                     /\ "gpu_error" \in DOMAIN thr'[t].dp
                            => thr'[t].dp.gpu_error \in GpuErrors
        /\ \A t \in Threads :
              (thr[t].pc = "append" /\ thr'[t] # thr[t])
                  => /\ data' = Append(data, thr[t].dp)
                     /\ thr'[t].pc = "sleep"
        /\ GPU_AVAILABLE =>
              \A i \in 1..Len(data') : OneGpuField(data'[i]) ]_vars

C17_Witness ==
    /\ GPU_AVAILABLE
    /\ \E i \in 1..Len(data) :
          /\ "gpu_error" \in DOMAIN data[i]
          /\ "gpus" \notin DOMAIN data[i]
    /\ \E t \in Threads : thr[t].pc = "check"

\* the sum of a field over the first n snapshots of the Timeline, by index
RECURSIVE FieldTotal(_, _)
FieldTotal(key, n) ==
    IF n = 0 THEN 0 ELSE data[n][key] + FieldTotal(key, n - 1)

\* C14: the analysis returned for a non-empty Timeline of N snapshots has for
\* max_cpu_percent a cpu value of some snapshot that no snapshot exceeds, for
\* avg_cpu_percent the total of the cpu values of the N snapshots divided by N,
\* and the same for max_memory_gb and avg_memory_gb over memory_used_gb.
C14_CpuMemAggregates ==
    (pc = "returned" /\ data # <<>>) =>
        LET a == ret.resource_analysis
            N == Len(data)
        IN /\ \E i \in 1..N : a.max_cpu_percent = data[i].cpu_percent
           /\ \A i \in 1..N : data[i].cpu_percent <= a.max_cpu_percent
           /\ a.avg_cpu_percent = [num |-> FieldTotal("cpu_percent", N), den |-> N]
           /\ \E i \in 1..N : a.max_memory_gb = data[i].memory_used_gb
           /\ \A i \in 1..N : data[i].memory_used_gb <= a.max_memory_gb
           /\ a.avg_memory_gb = [num |-> FieldTotal("memory_used_gb", N), den |-> N]

C14_Witness ==
    /\ pc = "returned"
    /\ Len(data) >= 3
    /\ data[1].cpu_percent > data[Len(data)].cpu_percent
    /\ data[2].memory_used_gb > data[1].memory_used_gb
    /\ ret.resource_analysis.avg_cpu_percent.den = Len(data)

\* the GPU device records of the Timeline: snapshot index, position in gpus
DeviceRecords ==
    UNION {{<<i, j>> : j \in 1..(IF "gpus" \in DOMAIN data[i]
                                  THEN Len(data[i].gpus) ELSE 0)} :
           i \in 1..Len(data)}

DeviceField(r, key) == data[r[1]].gpus[r[2]][key]

RECURSIVE DeviceTotal(_, _)
DeviceTotal(R, key) ==
    IF R = {} THEN 0
    ELSE LET r == CHOOSE x \in R : TRUE
         IN DeviceField(r, key) + DeviceTotal(R \ {r}, key)

\* C18: the analysis returned has the four GPU keys when some snapshot of the
\* Timeline holds a GPU device record and none of them otherwise; when present
\* the maxima are the largest memory_used_mb and gpu_percent of all device
\* records of all snapshots and the averages their totals divided by the
\* number of device records, whatever snapshots have an empty gpus list, a
\* gpu_error or a different number of devices.
C18_GpuAggregatesPooled ==
    pc = "returned" =>
        LET a == ret.resource_analysis
            R == DeviceRecords
        IN /\ R # {} => GpuKeys \subseteq DOMAIN a
           /\ R = {} => DOMAIN a \cap GpuKeys = {}
           /\ R # {} =>
               /\ \E r \in R : a.max_gpu_memory_mb = DeviceField(r, "memory_used_mb")
               /\ \A r \in R : DeviceField(r, "memory_used_mb") <= a.max_gpu_memory_mb
               /\ a.avg_gpu_memory_mb = [num |-> DeviceTotal(R, "memory_used_mb"),
                                         den |-> Cardinality(R)]
               /\ \E r \in R : a.max_gpu_utilization = DeviceField(r, "gpu_percent")
               /\ \A r \in R : DeviceField(r, "gpu_percent") <= a.max_gpu_utilization
               /\ a.avg_gpu_utilization = [num |-> DeviceTotal(R, "gpu_percent"),
                                           den |-> Cardinality(R)]

C18_Witness ==
    /\ pc = "returned"
    /\ Len(data) >= 3
    /\ "gpu_error" \in DOMAIN data[1]
    /\ "gpus" \in DOMAIN data[2] /\ Len(data[2].gpus) = 1
    /\ "gpus" \in DOMAIN data[3] /\ Len(data[3].gpus) = 2
    /\ GpuKeys \subseteq DOMAIN ret.resource_analysis

\* a Timeline whose snapshots with gpus all have an empty list
C18_WitnessEmptyLists ==
    /\ pc = "returned"
    /\ \E i \in 1..Len(data) : "gpus" \in DOMAIN data[i]
    /\ DeviceRecords = {}

\* the statements of one iteration of _monitor_loop follow one another: the
\* flag is read at the check only, one data_point is appended between two
\* checks, and a check that finds the flag false ends the thread
IterationOrder(t) ==
    /\ thr[t].pc = "check" => thr'[t].pc = (IF monitoring THEN "tick" ELSE "done")
    /\ thr[t].pc = "tick" => thr'[t].pc \in {"gpu", "append", "dead"}
    /\ thr[t].pc = "gpu" => thr'[t].pc = "append"
    /\ thr[t].pc = "append" => thr'[t].pc = "sleep"
    /\ thr[t].pc = "sleep" => thr'[t].pc = "check"
    /\ thr[t].pc \in {"done", "dead"} => FALSE
    /\ data' = (IF thr[t].pc = "append" THEN Append(data, thr[t].dp) ELSE data)

\* C16: a thread reads the flag once per iteration, at its check, so with the
\* flag cleared it appends at most the data_point of the iteration it is in
\* and ends at its next check; and under a fair scheduler every call of
\* stop_monitoring that has cleared the flag and waits in join() returns.
C16_StopTerminates ==
    /\ [][\A t \in Threads : thr'[t] # thr[t] => IterationOrder(t)]_vars
    /\ (pc = "join") ~> (pc = "returned")

\* the same scheduler for the caller of Spec, who may stop an idle Sampler,
\* stop twice or start twice
SpecCallerFair ==
    /\ Spec
    /\ \A t \in Threads : WF_vars(ThreadStep(t))
    /\ WF_vars(ReturnStop)

\* under SpecCallerFair too every stop_monitoring waiting in join() returns
StopReturnsForAnyCaller == (pc = "join") ~> (pc = "idle")

\* stop_monitoring has cleared the flag and waits in join() while the thread
\* is about to append the data_point of the iteration it was in
C16_Witness ==
    /\ pc = "join"
    /\ ~monitoring
    /\ \E t \in Threads : thr[t].pc = "append" /\ "gpu_error" \in DOMAIN thr[t].dp

\* C15: when subprocess.run has returned for a child that ran for at least 3
\* intervals, the Timeline holds at least 2 snapshots.
C15_TwoSnapshotsBySlowChildExit ==
    (child.state = "exited" /\ run.end_time - run.start_time >= 3 * Interval)
        => Len(data) >= 2

\* the same for the runs in which no thread has left its loop by an exception
C15_HoldsWhileNoTickRaises ==
    (/\ child.state = "exited"
     /\ run.end_time - run.start_time >= 3 * Interval
     /\ \A t \in Threads : thr[t].pc # "dead")
        => Len(data) >= 2

\* the configuration the nested loops generate in position k, by counting
ExpectedConfig(k) ==
    LET a == bench.args
        nb == Len(a.batch_sizes)
        nw == Len(a.num_workers)
        z == k - 1
    IN BenchConfig(a.models[(z \div (2 * nw * nb)) + 1],
                   a.batch_sizes[((z \div (2 * nw)) % nb) + 1],
                   a.num_workers[((z \div 2) % nw) + 1],
                   z % 2 = 1)

\* C19: the records appended so far are those of the first configurations in
\* generation order, one each; each has success true exactly when its child
\* exited with 0, and return_code, the exit code, exactly when it failed; and
\* when the loop is over, whatever the exit codes were, there is one record
\* for every configuration of models x batch sizes x workers x {False, True}.
C19_SweepRecordsEveryRun ==
    bench.pc \in {"loop", "wait", "done"} =>
        LET results == bench.results
            a == bench.args
        IN /\ Len(bench.exits) = Len(results)
           /\ Len(results) <= Len(bench.configs)
           /\ \A k \in 1..Len(results) :
                /\ results[k].config = ExpectedConfig(k)
                /\ results[k].success = (bench.exits[k] = 0)
                /\ ("return_code" \in DOMAIN results[k]) = ~results[k].success
                /\ ~results[k].success => results[k].return_code = bench.exits[k]
           /\ bench.pc = "done" =>
                Len(results) = 2 * Len(a.models) * Len(a.batch_sizes)
                                 * Len(a.num_workers)

C19_Witness ==
    /\ bench.pc = "done"
    /\ Len(bench.results) = MaxConfigs
    /\ Len(bench.args.models) = 2
    /\ Len(bench.args.num_workers) = 2
    /\ ~bench.results[1].success
    /\ bench.results[2].success
    /\ ~bench.results[MaxConfigs].success

====
